---- MODULE Spec2Model ----
(***************************************************************************)
(* State-machine model of the BPM detector core of esp32-bpm-detector:     *)
(* the sample window, the spectral step, the envelope beat tracker, the    *)
(* bounded beat history and the tempo estimator (src/bpm_detector.cpp),    *)
(* driven by the firmware of src/main.cpp and by the audio front end.      *)
(*                                                                         *)
(* Fixed point.  The code computes in float; the model computes in         *)
(* integers: voltages, spectral magnitudes, envelope, thresholds, signal   *)
(* level and confidence are in hundredths (1.0 is 100), bpm is in          *)
(* hundredths of a beat per minute, times are in milliseconds.             *)
(* Timestamps are unsigned long, 32 bits on the ESP32: a timestamp is a    *)
(* pair <<hi, lo>> of 16-bit halves and its arithmetic wraps at 2^32.      *)
(***************************************************************************)
EXTENDS Integers, Sequences, FiniteSets, TLC

----------------------------------------------------------------------------
(* Configuration (config.h) *)

MIN_BPM == 60
MAX_BPM == 200
\* DETECTION_THRESHOLD 0.5, CONFIDENCE_THRESHOLD 0.3, ENVELOPE_DECAY 0.9, in hundredths
DETECTION_THRESHOLD == 50
CONFIDENCE_THRESHOLD == 30
ENVELOPE_DECAY == 90
BASS_FREQ_MIN == 40
BASS_FREQ_MAX == 200
MIN_BEAT_INTERVAL == 300
MAX_BEAT_INTERVAL == 1000
BEAT_HISTORY_SIZE == 32
\* the signal level below which detect() reports low_signal: 0.01, in hundredths
LOW_SIGNAL_LEVEL == 1

----------------------------------------------------------------------------
(* Bounds of the model *)

\* sample_rate and fft_size the detectors are constructed with
\* (BPMDetector(sample_rate, fft_size)): two spectrum bins, both in the bass band
SampleRate == 400
FftSize == 4
\* the largest code of the 12-bit ADC, the code readSample() falls back to,
\* and the reference voltage of the manual conversion in millivolts
ADC_MAX == 4095
ADC_MIDPOINT == 2048
V_REF == 1100
\* the pole of the DC blocker in thousandths
DC_BLOCKER_POLE == 995
\* SAMPLE_RATE of src/src/config.h and the detection period of loop(), in the
\* units of millis()
SAMPLE_RATE == 25000
DETECTION_PERIOD == 100
\* ErrorSeverity
WARNING == 2
ERROR == 3
CRITICAL == 4
\* the error count from which DefaultErrorHandler refuses to recover
RECOVERY_ERROR_LIMIT == 10
\* health check failures in a row before the WatchdogManager enters fail-safe mode
MAX_CONSECUTIVE_FAILURES == 3
\* clock advances of a behaviour; of the steady-beat environment; of two detectors
MaxTicks == 2
MaxSteadyTicks == 34
MaxMultiTicks == 1
MaxStaleTicks == 6
\* timestamps a test puts in a history
MaxMockBeats == 5
\* the largest fft_size of the configurations whose bass bins are computed
MaxFftSize == 16
\* errors the handler counts, and failures the WatchdogManager counts, in a behaviour
MaxErrors == 10
MaxFailures == 7
\* samples that fill the window of the single-loop firmware, and the loop
\* time of a behaviour of it
WindowSamples == 3
MaxLoopTime == 400
\* reads of the front end of src/src in a behaviour
MaxReads == 3
\* entries of the RMS ring of the front end
RMS_BUFFER_SIZE == 2

\* the detector instances; the single-detector firmware uses detector 1 only
Detectors == {1, 2}
\* filtered sample values the front end or the test generator delivers
Samples == {0, 100}
\* spectral magnitudes the FFT delivers per bin
Magnitudes == {0, 48, 52}
\* normalized signal levels of the audio front end
Levels == {0, 96, 100}

----------------------------------------------------------------------------
(* unsigned long arithmetic, 32 bits as two 16-bit halves *)

HALF == 65536

U32(n) == <<0, n>>

Add32(a, b) ==
    LET lo == a[2] + b[2]
    IN  <<(a[1] + b[1] + (lo \div HALF)) % HALF, lo % HALF>>

\* a - b as unsigned long subtraction computes it
Sub32(a, b) ==
    LET lo == a[2] - b[2]
        borrow == IF lo < 0 THEN 1 ELSE 0
    IN  <<(a[1] - b[1] - borrow) % HALF, lo % HALF>>

\* a >= n for a small n
Ge32(a, n) == a[1] > 0 \/ a[2] >= n

\* a < b as unsigned values
Lt32(a, b) == a[1] < b[1] \/ (a[1] = b[1] /\ a[2] < b[2])

\* the clock advances between two calls: beat spacings, and an idle stretch
\* of 2^32 - 500 ms that brings the 32-bit millisecond counter near its end
BeatSteps == {U32(300), U32(1000)}
LongIdle == <<65535, 65036>>
ClockSteps == BeatSteps \cup {LongIdle}

----------------------------------------------------------------------------
VARIABLES
    sample_buffer,      \* [d] sample_buffer_: the sample window
    added,              \* [d] samples added since construction or begin(), capped at FftSize
    recent,             \* [d] the last FftSize of these samples, oldest first
    fft_buffer,         \* [d] fft_buffer_: the magnitude spectrum
    envelope_value,     \* [d] envelope_value_
    envelope_threshold, \* [d] envelope_threshold_
    detection_threshold,\* [d] detection_threshold_
    min_bpm, max_bpm,   \* [d] min_bpm_, max_bpm_
    beat_times,         \* [d] beat_times_: the beat history
    test_mode,          \* [d] test_mode_
    sample_rate,        \* [d] sample_rate_
    prev_envelope,      \* static float prev_envelope of detectBeatEnvelope()
    vReal,              \* static double* vReal of performFFT(), <<>> until allocated
    audio_input,        \* static AudioInput* audio_input: NoInput or its state
    now,                \* millis()
    ticks,              \* clock advances so far
    result,             \* [d] the BPMData the last detect() returned
    beat_event,         \* [d] what the last detection cycle did with the rising edge
    op,                 \* the last operation: <<name, detector>>
    task_pc,            \* audioSamplingTask: "none" until created, then where sample() stands
    task_value,         \* audioSamplingTask: the sample read, not yet stored
    task_i,             \* audioSamplingTask: index of the shift loop of addSample
    loop_pc,            \* loop(): where its detect() call stands
    loop_level,         \* loop(): result.signal_level of the detect() call under way
    copy_i,             \* loop(): index of the copy loop of performFFT
    adc,                \* the AudioInput object of src/src: initialized_, stereo_mode_, peaks
    converted,          \* the ADC codes its last read converted to a voltage
    reads,              \* reads of that front end so far
    epoch,              \* the codes read and signal levels since the last resetCalibration()
    previous,           \* the same between the two resetCalibration() calls before
    safety,             \* the SafetyManager: initialized_, fail_safe_mode_, which pointers are set
    handler,            \* its DefaultErrorHandler: log_manager_ set, in_fail_safe_mode_, error_count_
    wdm,                \* the WatchdogManager: consecutive_failures_, in_fail_safe_mode_, health_check_ set
    feeds,              \* calls of watchdog_->feed() in the last operation
    streak,             \* checkHealthAndFeed() failures in a row since the last successful feed
    single,             \* loop() of src/src/main.cpp: its clock, lastDetectionTime and its calls
    returned,           \* what the last direct call of a private function returned
    read_log            \* the values the last sample() call read from its source

windowVars == <<sample_buffer, added, recent>>
configVars == <<detection_threshold, min_bpm, max_bpm, test_mode, sample_rate>>
trackerVars == <<fft_buffer, envelope_value, envelope_threshold, beat_times,
                 prev_envelope, vReal, beat_event>>
clockVars == <<now, ticks>>
taskVars == <<task_pc, task_value, task_i>>
loopVars == <<loop_pc, loop_level, copy_i>>
harnessVars == <<returned, read_log>>
frontVars == <<adc, converted, reads, epoch, previous>>
safetyVars == <<safety, handler, wdm, feeds, streak>>
\* the clock, the single-loop firmware and the safety managers
restVars == <<clockVars, single, safetyVars>>

vars == <<windowVars, configVars, trackerVars, clockVars, single, safetyVars, frontVars, taskVars, loopVars,
          harnessVars, audio_input, result, op>>

----------------------------------------------------------------------------
(* Pure helpers of BPMDetector *)

NoInput == [initialized |-> FALSE, level |-> 0, exists |-> FALSE]

\* the single-loop firmware after setup(): currentTime is millis() at the last
\* loop() call, samples and detects count its sample() and detect() calls,
\* waited is the loop time since the window was ready without a detect() call
NoLoop == [currentTime |-> 0, lastDetectionTime |-> 0, samples |-> 0, detects |-> 0,
           waited |-> 0]

\* a SafetyManager before initialize(), a DefaultErrorHandler and a
\* WatchdogManager as constructed
NoSafety == [initialized |-> FALSE, fail_safe_mode |-> FALSE,
             watchdog_manager |-> FALSE, custom_health_check |-> FALSE]
NoHandler == [log_manager |-> FALSE, in_fail_safe_mode |-> FALSE, error_count |-> 0]
NoWatchdogManager == [consecutive_failures |-> 0, in_fail_safe_mode |-> FALSE,
                      health_check |-> FALSE]

\* AudioInput() of src/src/audio_input.cpp; signals in millivolts
\* dc_blocking is USE_DC_BLOCKING_FILTER of the build, dc the members x1_, y1_
\* of dc_blocker_
NoAdc == [initialized |-> FALSE, stereo_mode |-> FALSE,
          max_signal |-> 0, min_signal |-> ADC_MAX * 1000,
          rms_buffer |-> [i \in 1..RMS_BUFFER_SIZE |-> 0], rms_index |-> 0,
          signal_level |-> 0,
          dc_blocking |-> FALSE, dc |-> [x1 |-> 0, y1 |-> 0]]

\* the front end as constructed in a build without and with the DC blocker
Builds == {[NoAdc EXCEPT !.dc_blocking = flag] : flag \in BOOLEAN}

Zeros(n) == [i \in 1..n |-> 0]

Last(s) == s[Len(s)]

RECURSIVE SumSeq(_)
SumSeq(s) == IF s = <<>> THEN 0 ELSE Head(s) + SumSeq(Tail(s))

\* floor of the square root
RECURSIVE ISqrtIn(_, _, _)
ISqrtIn(n, lo, hi) ==
    IF lo >= hi THEN lo
    ELSE LET mid == (lo + hi + 1) \div 2
         IN  IF mid * mid <= n THEN ISqrtIn(n, mid, hi) ELSE ISqrtIn(n, lo, mid - 1)
ISqrt(n) == ISqrtIn(n, 0, IF n < 40000 THEN n ELSE 40000)

\* the samples added so far, the last FftSize of them kept
LastAdded(log, value) ==
    LET all == Append(log, value)
    IN  IF Len(all) > FftSize THEN Tail(all) ELSE all

\* addSample storing the value at the end without the shift
addSampleNoShift(buf, value) ==
    IF Len(buf) < FftSize THEN Append(buf, value) ELSE [buf EXCEPT ![FftSize] = value]

\* addSample: append while short of fft_size, else shift left and store at the end
addSample(buf, value) ==
    IF Len(buf) < FftSize
    THEN Append(buf, value)
    ELSE [i \in 1..FftSize |-> IF i < FftSize THEN buf[i + 1] ELSE value]

isBufferReady(buf) == Len(buf) >= FftSize

\* AudioInput::getNormalizedLevel of the shared front end
NormalizedLevel(ai) == ai.level

\* detect(): the level computed from the window when there is no front end
WindowLevel(buf) ==
    LET sq == [i \in 1..Len(buf) |-> buf[i] * buf[i]]
        rms == ISqrt(SumSeq(sq) \div Len(buf))
    IN  IF rms > 100 THEN 100 ELSE rms

\* the magnitude spectra performFFT can leave in fft_buffer_ for a window:
\* the transform of an all-zero window is zero, any other window can put
\* any magnitude in a bin
Spectra(input) ==
    IF \A i \in 1..Len(input) : input[i] = 0
    THEN {Zeros(FftSize \div 2)}
    ELSE [1..(FftSize \div 2) -> Magnitudes]

\* vReal after complexToMagnitude: the spectrum in its first half; the second
\* half is never read
Transformed(spectrum) == spectrum \o Zeros(FftSize - Len(spectrum))

\* bass bins: (size_t)(freq / (sample_rate / fft_size)), then the clamps
RawBin(freq) == (freq * FftSize) \div SampleRate
MinBin == IF RawBin(BASS_FREQ_MIN) >= FftSize \div 2 THEN 0 ELSE RawBin(BASS_FREQ_MIN)
MaxBin == IF RawBin(BASS_FREQ_MAX) >= FftSize \div 2 THEN FftSize \div 2 - 1 ELSE RawBin(BASS_FREQ_MAX)

\* a value below 2^31 stored in a size_t, 32 bits as two 16-bit halves
SizeT(n) == <<n \div HALF, n % HALF>>

\* what the conversion of an infinite or NaN float to size_t can give
UndefinedCasts == {SizeT(0), <<HALF - 1, HALF - 1>>}

\* (size_t)(freq / freq_resolution) of a detector constructed with rate and
\* size: the resolution is infinite for size 0 and zero or NaN for rate 0
RawBinsOf(freq, rate, size) ==
    IF rate = 0 THEN UndefinedCasts
    ELSE IF size = 0 THEN {SizeT(0)}
    ELSE {SizeT((freq * size) \div rate)}

\* the clamps of min_bin and max_bin; fft_size_ / 2 - 1 is stored in a size_t
ClampMinBin(bin, size) == IF Ge32(bin, size \div 2) THEN SizeT(0) ELSE bin
ClampMaxBin(bin, size) ==
    IF Ge32(bin, size \div 2) THEN Sub32(SizeT(size \div 2), SizeT(1)) ELSE bin

\* the bass bins and the divisor of the mean that detectBeatEnvelope()
\* computes in a detector constructed with rate and size
BassBins(rate, size) ==
    {[sample_rate |-> rate, fft_size |-> size,
      min_bin |-> ClampMinBin(lo, size),
      max_bin |-> ClampMaxBin(hi, size),
      divisor |-> Add32(Sub32(ClampMaxBin(hi, size), ClampMinBin(lo, size)), SizeT(1))] :
        lo \in RawBinsOf(BASS_FREQ_MIN, rate, size),
        hi \in RawBinsOf(BASS_FREQ_MAX, rate, size)}

\* mean magnitude of the bass bins (fft_buffer_ is indexed from 0 in the code)
BassEnergy(fft) ==
    LET energy[i \in (MinBin - 1)..MaxBin] ==
            IF i < MinBin THEN 0 ELSE energy[i - 1] + fft[i + 1]
    IN  energy[MaxBin] \div (MaxBin - MinBin + 1)

\* attack / release of the envelope
NextEnvelope(env, bass_energy) ==
    IF bass_energy > env
    THEN bass_energy
    ELSE (env * ENVELOPE_DECAY + bass_energy * (100 - ENVELOPE_DECAY)) \div 100

\* envelope_threshold_ = detection_threshold_ * (0.5 + signal_level * 0.5)
AdaptiveThreshold(base, ai) ==
    LET signal_level == IF ai.exists THEN NormalizedLevel(ai) ELSE 0
    IN  (base * (50 + signal_level \div 2)) \div 100

RisingEdge(env, thr, prev) == env > thr /\ prev <= thr

\* DebounceOk with the interval test left out
DebounceOkUnchecked(times, current_time) == TRUE

\* the debounce test of an edge seen at current_time
DebounceOk(times, current_time) ==
    times = <<>> \/ Ge32(Sub32(current_time, Last(times)), MIN_BEAT_INTERVAL)

\* PushBeat erasing the newest timestamp instead of the oldest
PushBeatErasesNewest(times, current_time) ==
    LET pushed == Append(times, current_time)
    IN  IF Len(pushed) > BEAT_HISTORY_SIZE THEN SubSeq(pushed, 1, BEAT_HISTORY_SIZE) ELSE pushed

\* push_back, then erase the oldest beyond BEAT_HISTORY_SIZE
PushBeat(times, current_time) ==
    LET pushed == Append(times, current_time)
    IN  IF Len(pushed) > BEAT_HISTORY_SIZE THEN Tail(pushed) ELSE pushed

\* detectBeatEnvelope returning on a rejected edge before it stores prev_envelope
detectBeatEnvelopeEarlyReturn(fft, env, base, ai, prev, times, current_time) ==
    LET new_env == NextEnvelope(env, BassEnergy(fft))
        thr == AdaptiveThreshold(base, ai)
        edge == RisingEdge(new_env, thr, prev)
        accept == edge /\ DebounceOk(times, current_time)
    IN  [envelope_value |-> new_env,
         envelope_threshold |-> thr,
         prev_envelope |-> IF edge /\ ~accept THEN prev ELSE new_env,
         beat_times |-> IF accept THEN PushBeat(times, current_time) ELSE times,
         beat_event |-> IF accept THEN "accepted"
                        ELSE IF edge THEN "rejected" ELSE "none"]

\* detectBeatEnvelope() on the spectrum fft: the new envelope state, static
\* prev_envelope, history, and what happened to the edge
detectBeatEnvelope(fft, env, base, ai, prev, times, current_time) ==
    LET new_env == NextEnvelope(env, BassEnergy(fft))
        thr == AdaptiveThreshold(base, ai)
        edge == RisingEdge(new_env, thr, prev)
        accept == edge /\ DebounceOk(times, current_time)
    IN  [envelope_value |-> new_env,
         envelope_threshold |-> thr,
         prev_envelope |-> new_env,
         beat_times |-> IF accept THEN PushBeat(times, current_time) ELSE times,
         beat_event |-> IF accept THEN "accepted"
                        ELSE IF edge THEN "rejected" ELSE "none"]

\* ValidInterval keeping every interval
ValidIntervalAny(iv) == TRUE

\* the intervals between consecutive beats that calculateBPM and
\* calculateConfidence keep: unsigned differences within [MIN, MAX]_BEAT_INTERVAL
ValidInterval(iv) == iv[1] = 0 /\ iv[2] >= MIN_BEAT_INTERVAL /\ iv[2] <= MAX_BEAT_INTERVAL

Intervals(times) ==
    LET all == [i \in 1..(Len(times) - 1) |-> Sub32(times[i + 1], times[i])]
        kept == SelectSeq(all, ValidInterval)
    IN  [i \in 1..Len(kept) |-> kept[i][2]]

\* Median2 taking the mean of the intervals instead
Median2FromMean(sorted) == (2 * SumSeq(sorted)) \div Len(sorted)

\* twice the median of the sorted intervals
Median2(sorted) ==
    LET n == Len(sorted)
    IN  IF n % 2 = 0 THEN sorted[n \div 2] + sorted[n \div 2 + 1]
        ELSE 2 * sorted[n \div 2 + 1]

\* calculateBPM without the two range tests on the tempo
calculateBPMUnclamped(times, lo_bpm, hi_bpm) ==
    IF Len(times) < 2 THEN 0
    ELSE LET intervals == Intervals(times)
         IN  IF intervals = <<>> THEN 0
             ELSE 12000000 \div Median2(SortSeq(intervals, LAMBDA a, b : a < b))

\* calculateBPM(): 60000 / median, 0 outside [min_bpm_, max_bpm_]; in hundredths
calculateBPM(times, lo_bpm, hi_bpm) ==
    IF Len(times) < 2 THEN 0
    ELSE LET intervals == Intervals(times)
         IN  IF intervals = <<>> THEN 0
             ELSE LET m2 == Median2(SortSeq(intervals, LAMBDA a, b : a < b))
                  IN  IF 120000 < lo_bpm * m2 THEN 0
                      ELSE IF 120000 > hi_bpm * m2 THEN 0
                      ELSE 12000000 \div m2

\* calculateConfidence(): 1 - 2 * stddev / mean clamped to [0, 1]; in hundredths.
\* mean and deviations are carried in tenths of a millisecond.
calculateConfidence(times) ==
    IF Len(times) < 3 THEN 0
    ELSE LET intervals == Intervals(times)
             n == Len(intervals)
         IN  IF n = 0 THEN 0
             ELSE LET mean == (10 * SumSeq(intervals)) \div n
                      sq == [i \in 1..n |-> (10 * intervals[i] - mean) * (10 * intervals[i] - mean)]
                      std_dev == ISqrt(SumSeq(sq) \div n)
                      confidence == 100 - (200 * std_dev) \div mean
                  IN  IF mean < 10 THEN 0
                      ELSE IF confidence < 0 THEN 0
                      ELSE IF confidence > 100 THEN 100
                      ELSE confidence

\* the status detect() derives from bpm and confidence
Classify(bpm, confidence) ==
    IF bpm > 0 /\ confidence >= CONFIDENCE_THRESHOLD THEN "detecting"
    ELSE IF bpm > 0 THEN "low_confidence"
    ELSE "no_beats"

BPMData(bpm, confidence, signal_level, status) ==
    [bpm |-> bpm, confidence |-> confidence, signal_level |-> signal_level, status |-> status]

----------------------------------------------------------------------------
(* Construction *)

InitWith(front) ==
    /\ sample_buffer = [d \in Detectors |-> Zeros(FftSize)]
    /\ added = [d \in Detectors |-> 0]
    /\ recent = [d \in Detectors |-> <<>>]
    /\ fft_buffer = [d \in Detectors |-> Zeros(FftSize \div 2)]
    /\ envelope_value = [d \in Detectors |-> 0]
    /\ envelope_threshold = [d \in Detectors |-> DETECTION_THRESHOLD]
    /\ detection_threshold = [d \in Detectors |-> DETECTION_THRESHOLD]
    /\ min_bpm = [d \in Detectors |-> MIN_BPM]
    /\ max_bpm = [d \in Detectors |-> MAX_BPM]
    /\ beat_times = [d \in Detectors |-> <<>>]
    /\ test_mode = [d \in Detectors |-> FALSE]
    /\ sample_rate = [d \in Detectors |-> SampleRate]
    /\ prev_envelope = 0
    /\ vReal = <<>>
    /\ audio_input = NoInput
    /\ now = U32(0)
    /\ ticks = 0
    /\ result = [d \in Detectors |-> BPMData(0, 0, 0, "initializing")]
    /\ beat_event = [d \in Detectors |-> "none"]
    /\ op = <<"construct", 0>>
    /\ task_pc = "none"
    /\ task_value = 0
    /\ task_i = 0
    /\ returned = 0
    /\ adc = front
    /\ converted = <<>>
    /\ reads = 0
    /\ epoch = <<>>
    /\ previous = <<>>
    /\ safety = NoSafety
    /\ handler = NoHandler
    /\ wdm = NoWatchdogManager
    /\ feeds = 0
    /\ streak = 0
    /\ single = NoLoop
    /\ read_log = <<>>
    /\ loop_pc = "setup"
    /\ loop_level = 0
    /\ copy_i = 0

Init == InitWith(NoAdc)

\* construction in either build of the front end
InitBuilds == \E front \in Builds : InitWith(front)

----------------------------------------------------------------------------
(* Operations of one detector, each call run to completion *)

\* what begin(adc_pin) does to the detector and to the shared front end
BeginEffect(d) ==
    /\ audio_input' = IF audio_input.exists THEN audio_input
                      ELSE [initialized |-> TRUE, level |-> 0, exists |-> TRUE]
    /\ sample_buffer' = [sample_buffer EXCEPT ![d] = [i \in 1..Len(@) |-> 0]]
    /\ added' = [added EXCEPT ![d] = 0]
    /\ recent' = [recent EXCEPT ![d] = <<>>]
    /\ fft_buffer' = [fft_buffer EXCEPT ![d] = [i \in 1..Len(@) |-> 0]]
    /\ beat_times' = [beat_times EXCEPT ![d] = <<>>]
    /\ envelope_value' = [envelope_value EXCEPT ![d] = 0]
    /\ envelope_threshold' = [envelope_threshold EXCEPT ![d] = detection_threshold[d]]
    /\ UNCHANGED <<prev_envelope, vReal, beat_event>>

\* the sample rates a detector is constructed with
SampleRates == {0, SampleRate}

\* BPMDetector(sample_rate, fft_size) constructing detector d anew: the
\* members take the arguments and the defaults, no argument is examined; the
\* statics of the translation unit are not touched
Construct(d, rate) ==
    /\ sample_rate' = [sample_rate EXCEPT ![d] = rate]
    /\ min_bpm' = [min_bpm EXCEPT ![d] = MIN_BPM]
    /\ max_bpm' = [max_bpm EXCEPT ![d] = MAX_BPM]
    /\ detection_threshold' = [detection_threshold EXCEPT ![d] = DETECTION_THRESHOLD]
    /\ envelope_value' = [envelope_value EXCEPT ![d] = 0]
    /\ test_mode' = [test_mode EXCEPT ![d] = FALSE]
    /\ sample_buffer' = [sample_buffer EXCEPT ![d] = Zeros(FftSize)]
    /\ added' = [added EXCEPT ![d] = 0]
    /\ recent' = [recent EXCEPT ![d] = <<>>]
    /\ fft_buffer' = [fft_buffer EXCEPT ![d] = Zeros(FftSize \div 2)]
    /\ beat_times' = [beat_times EXCEPT ![d] = <<>>]
    /\ envelope_threshold' = [envelope_threshold EXCEPT ![d] = DETECTION_THRESHOLD]
    /\ result' = [result EXCEPT ![d] = BPMData(0, 0, 0, "initializing")]
    /\ beat_event' = [beat_event EXCEPT ![d] = "none"]
    /\ op' = <<"construct", d>>
    /\ UNCHANGED <<prev_envelope, vReal, audio_input, restVars, frontVars, taskVars, loopVars,
                   harnessVars>>

\* begin(adc_pin)
Begin(d) ==
    /\ BeginEffect(d)
    /\ op' = <<"begin", d>>
    /\ UNCHANGED <<configVars, restVars, frontVars, taskVars, loopVars, result, harnessVars>>

\* enableTestMode(frequency_hz)
EnableTestMode(d) ==
    /\ ~test_mode[d]
    /\ test_mode' = [test_mode EXCEPT ![d] = TRUE]
    /\ op' = <<"enableTestMode", d>>
    /\ UNCHANGED <<windowVars, detection_threshold, min_bpm, max_bpm, trackerVars,
                   sample_rate, restVars, frontVars, taskVars, loopVars, audio_input,
                   result, harnessVars>>

\* disableTestMode()
DisableTestMode(d) ==
    /\ test_mode[d]
    /\ test_mode' = [test_mode EXCEPT ![d] = FALSE]
    /\ op' = <<"disableTestMode", d>>
    /\ UNCHANGED <<windowVars, detection_threshold, min_bpm, max_bpm, trackerVars,
                   sample_rate, restVars, frontVars, taskVars, loopVars, audio_input,
                   result, harnessVars>>

\* sample() appending the value it read twice
SampleAppendsTwice(d, value, level) ==
    /\ test_mode[d] \/ (audio_input.exists /\ audio_input.initialized)
    /\ audio_input' = IF test_mode[d] THEN audio_input
                      ELSE [audio_input EXCEPT !.level = level]
    /\ sample_buffer' = [sample_buffer EXCEPT ![d] = addSample(addSample(@, value), value)]
    /\ added' = [added EXCEPT ![d] = IF @ < FftSize THEN @ + 1 ELSE @]
    /\ recent' = [recent EXCEPT ![d] = LastAdded(@, value)]
    /\ read_log' = <<value>>
    /\ op' = <<"sample", d>>
    /\ UNCHANGED <<configVars, trackerVars, restVars, frontVars, taskVars, loopVars, result, returned>>

\* sample(): value is what the generator or the ADC read delivers, level the
\* normalized level the front end has after that read; without test mode and
\* without an initialized front end the call does nothing
Sample(d, value, level) ==
    /\ \/ /\ test_mode[d]
          /\ sample_buffer' = [sample_buffer EXCEPT ![d] = addSample(@, value)]
          /\ added' = [added EXCEPT ![d] = IF @ < FftSize THEN @ + 1 ELSE @]
          /\ recent' = [recent EXCEPT ![d] = LastAdded(@, value)]
          /\ read_log' = <<value>>
          /\ UNCHANGED audio_input
       \/ /\ ~test_mode[d]
          /\ audio_input.exists /\ audio_input.initialized
          /\ audio_input' = [audio_input EXCEPT !.level = level]
          /\ sample_buffer' = [sample_buffer EXCEPT ![d] = addSample(@, value)]
          /\ added' = [added EXCEPT ![d] = IF @ < FftSize THEN @ + 1 ELSE @]
          /\ recent' = [recent EXCEPT ![d] = LastAdded(@, value)]
          /\ read_log' = <<value>>
       \/ /\ ~test_mode[d]
          /\ ~(audio_input.exists /\ audio_input.initialized)
          /\ read_log' = <<>>
          /\ UNCHANGED <<windowVars, audio_input>>
    /\ op' = <<"sample", d>>
    /\ UNCHANGED <<configVars, trackerVars, restVars, frontVars, taskVars, loopVars, result, returned>>

\* the part of detect() after the signal check: performFFT on the window copy
\* input, detectBeatEnvelope, calculateBPM, calculateConfidence, the status
Analyse(d, spectrum, signal_level) ==
    LET tracked == detectBeatEnvelope(spectrum, envelope_value[d], detection_threshold[d],
                                      audio_input, prev_envelope, beat_times[d], now)
        bpm == calculateBPM(tracked.beat_times, min_bpm[d], max_bpm[d])
        confidence == calculateConfidence(tracked.beat_times)
    IN  /\ vReal' = Transformed(spectrum)
        /\ fft_buffer' = [fft_buffer EXCEPT ![d] = spectrum]
        /\ envelope_value' = [envelope_value EXCEPT ![d] = tracked.envelope_value]
        /\ envelope_threshold' = [envelope_threshold EXCEPT ![d] = tracked.envelope_threshold]
        /\ prev_envelope' = tracked.prev_envelope
        /\ beat_times' = [beat_times EXCEPT ![d] = tracked.beat_times]
        /\ beat_event' = [beat_event EXCEPT ![d] = tracked.beat_event]
        /\ result' = [result EXCEPT ![d] =
                         BPMData(bpm, confidence, signal_level, Classify(bpm, confidence))]

\* result.signal_level as detect() obtains it
SignalLevel(d) ==
    IF audio_input.exists THEN NormalizedLevel(audio_input)
    ELSE WindowLevel(sample_buffer[d])

\* Skip clearing the beat history on its way out
SkipClearsHistory(d, signal_level, status) ==
    /\ result' = [result EXCEPT ![d] = BPMData(0, 0, signal_level, status)]
    /\ beat_event' = [beat_event EXCEPT ![d] = "none"]
    /\ beat_times' = [beat_times EXCEPT ![d] = <<>>]
    /\ UNCHANGED <<fft_buffer, envelope_value, envelope_threshold, prev_envelope, vReal>>

\* detect() returning before the analysis
Skip(d, signal_level, status) ==
    /\ result' = [result EXCEPT ![d] = BPMData(0, 0, signal_level, status)]
    /\ beat_event' = [beat_event EXCEPT ![d] = "none"]
    /\ UNCHANGED <<fft_buffer, envelope_value, envelope_threshold, beat_times,
                   prev_envelope, vReal>>

\* detect(); spectrum is the magnitude spectrum the FFT produces
Detect(d, spectrum) ==
    /\ op' = <<"detect", d>>
    /\ IF ~isBufferReady(sample_buffer[d])
       THEN Skip(d, 0, "buffering")
       ELSE IF SignalLevel(d) < LOW_SIGNAL_LEVEL
       THEN Skip(d, SignalLevel(d), "low_signal")
       ELSE /\ spectrum \in Spectra(sample_buffer[d])
            /\ Analyse(d, spectrum, SignalLevel(d))
    /\ UNCHANGED <<windowVars, configVars, restVars, frontVars, taskVars, loopVars, harnessVars,
                   audio_input>>

\* detect() when malloc returns nullptr in the first performFFT of the program:
\* performFFT does not test the pointers and its copy loop stores through
\* them, a store to address 0 that ends the program (a panic on the ESP32, a
\* segmentation fault on a host); detect() never returns
DetectAllocationFails(d) ==
    /\ vReal = <<>>
    /\ isBufferReady(sample_buffer[d])
    /\ SignalLevel(d) >= LOW_SIGNAL_LEVEL
    /\ op' = <<"panic", d>>
    /\ UNCHANGED <<windowVars, configVars, trackerVars, restVars, frontVars, taskVars, loopVars,
                   harnessVars, audio_input, result>>

\* the program is running: no call has ended it
Running == op[1] # "panic"

\* what analogRead can deliver: codes of the 12-bit range and codes outside it
RawCodes == {0 - 1, 0, ADC_MIDPOINT, ADC_MAX, ADC_MAX + 1}

Abs(x) == IF x < 0 THEN 0 - x ELSE x

\* the manual conversion (raw / 4095.0f) * V_REF, in millivolts
Millivolts(code) == (code * V_REF) \div ADC_MAX

\* readSample(): the validation of the code read
ValidCode(raw) == IF raw < 0 \/ raw > ADC_MAX THEN ADC_MIDPOINT ELSE raw

\* calculateRMS() of an RMS ring
calculateRMS(buf) ==
    IF Len(buf) = 0 THEN 0
    ELSE ISqrt(SumSeq([i \in 1..Len(buf) |-> buf[i] * buf[i]]) \div Len(buf))

\* updateSignalLevel(sample): the RMS ring, the peak tracking, the level
updateSignalLevel(a, sample) ==
    LET ring == [a.rms_buffer EXCEPT ![a.rms_index + 1] = Abs(sample)]
    IN  [a EXCEPT !.rms_buffer = ring,
                  !.rms_index = (@ + 1) % RMS_BUFFER_SIZE,
                  !.max_signal = IF Abs(sample) > @ THEN Abs(sample) ELSE @,
                  !.min_signal = IF Abs(sample) < @ THEN Abs(sample) ELSE @,
                  !.signal_level = calculateRMS(ring)]

\* resetCalibration(): level, peaks and RMS ring; the filters are not touched
resetCalibration(a) ==
    [a EXCEPT !.signal_level = 0, !.max_signal = 0, !.min_signal = ADC_MAX * 1000,
              !.rms_index = 0, !.rms_buffer = [i \in 1..RMS_BUFFER_SIZE |-> 0]]

\* pole_ * y1_, rounded toward zero
PoleTimes(y) ==
    IF y >= 0 THEN (y * DC_BLOCKER_POLE) \div 1000
    ELSE 0 - (((0 - y) * DC_BLOCKER_POLE) \div 1000)

\* DCBlocker::process(input): the filter after the call; y1 is the output
DCBlockerProcess(f, input) ==
    [x1 |-> input, y1 |-> input - f.x1 + PoleTimes(f.y1)]

\* dc_blocker_ after one sample went through the cascade of this build
Cascade(a, f, mv) == IF a.dc_blocking THEN DCBlockerProcess(f, mv) ELSE f

\* the processed sample of that pass
Processed(a, f, mv) == IF a.dc_blocking THEN DCBlockerProcess(f, mv).y1 ELSE mv

\* one conversion: the code read, the code converted, the voltage and the
\* processed sample
Conversion(raw, code, out) ==
    [raw |-> raw, code |-> code, mv |-> Millivolts(code), out |-> out]

\* AudioInput::beginStereo(left_pin, right_pin); begin(pin) is beginStereo(pin, 0)
BeginStereo(right_pin) ==
    /\ adc' = [resetCalibration(adc) EXCEPT !.initialized = TRUE,
                                            !.stereo_mode = right_pin # 0]
    /\ previous' = epoch
    /\ epoch' = <<>>
    /\ op' = <<"beginStereo", 0>>
    /\ UNCHANGED <<windowVars, configVars, trackerVars, restVars, taskVars, loopVars,
                   harnessVars, audio_input, result, converted, reads>>

\* AudioInput::resetCalibration()
ResetCalibration ==
    /\ adc' = resetCalibration(adc)
    /\ previous' = epoch
    /\ epoch' = <<>>
    /\ op' = <<"resetCalibration", 0>>
    /\ UNCHANGED <<windowVars, configVars, trackerVars, restVars, taskVars, loopVars,
                   harnessVars, audio_input, result, converted, reads>>

\* AudioInput::readSample() with analogRead delivering raw
ReadSample(raw) ==
    /\ reads < MaxReads
    /\ reads' = reads + 1
    /\ IF ~adc.initialized
       THEN /\ converted' = <<>>
            /\ UNCHANGED <<adc, epoch>>
       ELSE LET mv == Millivolts(ValidCode(raw))
                out == Processed(adc, adc.dc, mv)
            IN  /\ converted' = <<Conversion(raw, ValidCode(raw), out)>>
                /\ adc' = updateSignalLevel([adc EXCEPT !.dc = Cascade(adc, @, mv)], out)
                /\ epoch' = Append(epoch, [raw |-> <<raw>>, level |-> adc'.signal_level])
    /\ op' = <<"readSample", 0>>
    /\ UNCHANGED <<windowVars, configVars, trackerVars, restVars, taskVars, loopVars,
                   harnessVars, audio_input, result, previous>>

\* AudioInput::readStereoSamples(left, right) with analogRead delivering
\* left_raw and right_raw: neither code is validated, and the one dc_blocker_
\* processes the left sample and then the right sample
ReadStereoSamples(left_raw, right_raw) ==
    /\ reads < MaxReads
    /\ reads' = reads + 1
    /\ IF ~adc.initialized \/ ~adc.stereo_mode
       THEN /\ converted' = <<>>
            /\ UNCHANGED <<adc, epoch>>
       ELSE LET left_mv == Millivolts(left_raw)
                right_mv == Millivolts(right_raw)
                after_left == Cascade(adc, adc.dc, left_mv)
                left == Processed(adc, adc.dc, left_mv)
                right == Processed(adc, after_left, right_mv)
            IN  /\ converted' = <<Conversion(left_raw, left_raw, left),
                                  Conversion(right_raw, right_raw, right)>>
                /\ adc' = updateSignalLevel(
                            [adc EXCEPT !.dc = Cascade(adc, after_left, right_mv)],
                            (Abs(left) + Abs(right)) \div 2)
                /\ epoch' = Append(epoch, [raw |-> <<left_raw, right_raw>>,
                                           level |-> adc'.signal_level])
    /\ op' = <<"readStereoSamples", 0>>
    /\ UNCHANGED <<windowVars, configVars, trackerVars, restVars, taskVars, loopVars,
                   harnessVars, audio_input, result, previous>>

\* the configurations the constructor takes: any two uint16_t values, of
\* which the model has these
BinRates == {0, 25, 50, 100, 200, SampleRate, 1000}
BinSizes == 0..MaxFftSize

\* the bin computation of detectBeatEnvelope() in a detector constructed
\* with rate and size, run directly
ComputeBassBins(rate, size) ==
    /\ \E bins \in BassBins(rate, size) : returned' = bins
    /\ op' = <<"bassBins", 0>>
    /\ UNCHANGED <<windowVars, configVars, trackerVars, restVars, frontVars, taskVars,
                   loopVars, audio_input, result, read_log>>

\* time passes: millis() advances by step and wraps at 2^32
Tick(step, limit) ==
    /\ ticks < limit
    /\ now' = Add32(now, step)
    /\ ticks' = ticks + 1
    /\ op' = <<"tick", 0>>
    /\ UNCHANGED <<windowVars, configVars, trackerVars, taskVars, loopVars,
                   audio_input, result, harnessVars, frontVars, safetyVars, single>>

\* setMinBPM(min_bpm)
SetMinBPM(d, value) ==
    /\ min_bpm' = [min_bpm EXCEPT ![d] = value]
    /\ op' = <<"setMinBPM", d>>
    /\ UNCHANGED <<windowVars, detection_threshold, max_bpm, test_mode, trackerVars,
                   sample_rate, restVars, frontVars, taskVars, loopVars, audio_input,
                   result, harnessVars>>

\* setMaxBPM(max_bpm)
SetMaxBPM(d, value) ==
    /\ max_bpm' = [max_bpm EXCEPT ![d] = value]
    /\ op' = <<"setMaxBPM", d>>
    /\ UNCHANGED <<windowVars, detection_threshold, min_bpm, test_mode, trackerVars,
                   sample_rate, restVars, frontVars, taskVars, loopVars, audio_input,
                   result, harnessVars>>

\* setThreshold(threshold)
SetThreshold(d, value) ==
    /\ detection_threshold' = [detection_threshold EXCEPT ![d] = value]
    /\ envelope_threshold' = [envelope_threshold EXCEPT ![d] = value]
    /\ op' = <<"setThreshold", d>>
    /\ UNCHANGED <<windowVars, min_bpm, max_bpm, test_mode, fft_buffer, envelope_value,
                   beat_times, prev_envelope, vReal, beat_event,
                   sample_rate, clockVars, single, safetyVars, frontVars, taskVars, loopVars, audio_input,
                   result, harnessVars>>

\* a test builds a history: addMockBeats() of a vector whose next timestamp
\* lies gap after its last one
AddMockBeat(d, gap) ==
    /\ Len(beat_times[d]) < MaxMockBeats
    /\ beat_times' = [beat_times EXCEPT ![d] =
           Append(@, IF @ = <<>> THEN now ELSE Add32(Last(@), U32(gap)))]
    /\ op' = <<"addMockBeats", d>>
    /\ UNCHANGED <<windowVars, configVars, fft_buffer, envelope_value, envelope_threshold,
                   prev_envelope, vReal, beat_event, restVars, frontVars, taskVars, loopVars,
                   harnessVars, audio_input, result>>

\* a direct call of calculateBPM()
CalculateBPM(d) ==
    /\ returned' = calculateBPM(beat_times[d], min_bpm[d], max_bpm[d])
    /\ op' = <<"calculateBPM", d>>
    /\ UNCHANGED <<windowVars, configVars, trackerVars, restVars, frontVars, taskVars, loopVars,
                   read_log, audio_input, result>>

----------------------------------------------------------------------------
(* Environments and specifications *)

\* spectra offered to a detection cycle: silence, and a bass level just below
\* and just above the detection threshold
Quiet == Zeros(FftSize \div 2)
Soft == [i \in 1..(FftSize \div 2) |-> 48]
Loud == [i \in 1..(FftSize \div 2) |-> 52]

\* one detector, its calls serialized on one loop, the clock standing still:
\* the sample window and the life cycle
Next ==
    \/ Begin(1)
    \/ EnableTestMode(1)
    \/ DisableTestMode(1)
    \/ \E value \in Samples, level \in {0, 100} : Sample(1, value, level)
    \/ \E spectrum \in {Quiet, Loud} : Detect(1, spectrum)

Spec == Init /\ [][Next]_vars

\* one detector fed a signal, over time: the beat tracker and the estimator
BeatsNext ==
    \/ (~audio_input.exists /\ Begin(1))
    \/ \E level \in {96, 100} : Sample(1, 100, level)
    \/ \E spectrum \in {Soft, Loud} : Detect(1, spectrum)
    \/ \E step \in ClockSteps : Tick(step, MaxTicks)

SpecBeats == Init /\ [][BeatsNext]_vars

\* one detector tracking a steady beat: the clock advances by one beat
\* spacing once the beat at the current time is in the history
SteadyNext ==
    \/ (~audio_input.exists /\ Begin(1))
    \/ Sample(1, 100, 100)
    \/ \E spectrum \in {Soft, Loud} : Detect(1, spectrum)
    \/ (beat_times[1] # <<>> /\ Last(beat_times[1]) = now
        /\ Tick(U32(MIN_BEAT_INTERVAL), MaxSteadyTicks))

SpecSteady == Init /\ [][SteadyNext]_vars

\* one detector whose clock runs on whether or not beats arrive: time keeps
\* passing up to the last tick of the behaviour
StaleNext ==
    \/ (~audio_input.exists /\ Begin(1))
    \/ Sample(1, 100, 100)
    \/ \E spectrum \in {Soft, Loud} : Detect(1, spectrum)
    \/ Tick(U32(MIN_BEAT_INTERVAL), MaxStaleTicks)

SpecStale ==
    /\ Init
    /\ [][StaleNext]_vars
    /\ WF_vars(Tick(U32(MIN_BEAT_INTERVAL), MaxStaleTicks))

\* what a detector hears in the two-detector and the two-task environments:
\* silence on an all-zero window, a loud bass otherwise
Heard(input) == IF \A i \in 1..Len(input) : input[i] = 0 THEN Quiet ELSE Loud

\* two detectors (as BPMMonitorManager creates them), calls serialized
MultiNext ==
    \/ \E d \in Detectors : Begin(d)
    \/ \E d \in Detectors : Sample(d, 100, 100)
    \/ \E d \in Detectors : Detect(d, Heard(sample_buffer[d]))
    \/ Tick(U32(MIN_BEAT_INTERVAL), MaxMultiTicks)

SpecMulti == Init /\ [][MultiNext]_vars

\* tempo limits and thresholds the setters are called with
BpmLimits == {MIN_BPM, 150, MAX_BPM}
Thresholds == {40, DETECTION_THRESHOLD}

\* one detector reconfigured while it tracks beats
ConfigNext ==
    \/ Begin(1)
    \/ Sample(1, 100, 100)
    \/ \E spectrum \in {Soft, Loud} : Detect(1, spectrum)
    \/ Tick(U32(MIN_BEAT_INTERVAL), MaxTicks)
    \/ \E value \in BpmLimits : SetMinBPM(1, value)
    \/ \E value \in BpmLimits : SetMaxBPM(1, value)
    \/ \E value \in Thresholds : SetThreshold(1, value)

SpecConfig == Init /\ [][ConfigNext]_vars

\* spacings of the timestamps of a test history: too fast, the limits, the
\* middle and too slow
Gaps == {100, MIN_BEAT_INTERVAL, 500, MAX_BEAT_INTERVAL, 1500}

\* the tempo estimate on test histories, under reconfigured tempo limits
TempoNext ==
    \/ \E gap \in Gaps : AddMockBeat(1, gap)
    \/ CalculateBPM(1)
    \/ \E value \in BpmLimits : SetMinBPM(1, value)
    \/ \E value \in BpmLimits : SetMaxBPM(1, value)

SpecTempo == Init /\ [][TempoNext]_vars

\* the tempo estimate on tracked beats: one detector, beats 300 or 1000 ms
\* apart, the tempo limits narrowed and restored
EstimateNext ==
    \/ (~audio_input.exists /\ Begin(1))
    \/ (added[1] = 0 /\ Sample(1, 100, 100))
    \/ \E spectrum \in {Soft, Loud} : Detect(1, spectrum)
    \/ \E step \in BeatSteps : Tick(step, MaxTicks)
    \/ CalculateBPM(1)
    \/ \E value \in {MIN_BPM, 150} : SetMinBPM(1, value)
    \/ \E value \in {150, MAX_BPM} : SetMaxBPM(1, value)

SpecEstimate == Init /\ [][EstimateNext]_vars

\* one detector whose first scratch-buffer allocation may fail
AllocNext ==
    \/ (Running /\ Begin(1))
    \/ \E value \in Samples, level \in {0, 100} : (Running /\ Sample(1, value, level))
    \/ (Running /\ Detect(1, Heard(sample_buffer[1])))
    \/ (Running /\ DetectAllocationFails(1))

SpecAlloc == Init /\ [][AllocNext]_vars

\* one detector constructed with any of the sample rates; detect() is taken
\* with the rate the bass bins MinBin and MaxBin are computed for
ConstructNext ==
    \/ \E rate \in SampleRates : Construct(1, rate)
    \/ Begin(1)
    \/ \E value \in Samples, level \in {0, 100} : Sample(1, value, level)
    \/ (sample_rate[1] = SampleRate /\ Detect(1, Heard(sample_buffer[1])))

SpecConstruct == Init /\ [][ConstructNext]_vars

\* the front end of src/src alone, begun as mono or stereo and read
AdcNext ==
    \/ \E right_pin \in {0, 1} : BeginStereo(right_pin)
    \/ \E raw \in RawCodes : ReadSample(raw)
    \/ \E left_raw \in RawCodes, right_raw \in RawCodes : ReadStereoSamples(left_raw, right_raw)
    \/ ResetCalibration

SpecAdc == InitBuilds /\ [][AdcNext]_vars

\* the bass bins of every configuration
BinsNext == \E rate \in BinRates, size \in BinSizes : ComputeBassBins(rate, size)

SpecBins == Init /\ [][BinsNext]_vars

----------------------------------------------------------------------------
(* The safety managers of src/src/safety. A call works on the objects it    *)
(* reaches: st.safety, st.handler and st.wdm, with st.feeds the feeds of    *)
(* the watchdog so far in the call, st.streak the failed health checks in a *)
(* row and st.ret what the call returns.                                    *)

Severities == 0..5

\* the objects at the start of a call
Objects ==
    [safety |-> safety, handler |-> handler, wdm |-> wdm, feeds |-> 0, streak |-> streak,
     ret |-> FALSE]

\* DefaultErrorHandler::handleError(error)
handleError(st, severity) ==
    IF ~st.handler.log_manager THEN [st EXCEPT !.ret = FALSE]
    ELSE IF severity >= CRITICAL
    THEN [st EXCEPT !.handler.error_count = @ + 1,
                    !.handler.in_fail_safe_mode = TRUE, !.ret = FALSE]
    ELSE [st EXCEPT !.handler.error_count = @ + 1, !.ret = TRUE]

\* DefaultErrorHandler::attemptRecovery() clearing the count in any mode
handlerAttemptRecoveryAlways(st) ==
    IF st.handler.error_count < RECOVERY_ERROR_LIMIT
    THEN [st EXCEPT !.handler.in_fail_safe_mode = FALSE, !.handler.error_count = 0,
                    !.ret = TRUE]
    ELSE [st EXCEPT !.ret = FALSE]

\* DefaultErrorHandler::attemptRecovery()
handlerAttemptRecovery(st) ==
    IF ~st.handler.in_fail_safe_mode THEN [st EXCEPT !.ret = TRUE]
    ELSE IF st.handler.error_count < RECOVERY_ERROR_LIMIT
    THEN [st EXCEPT !.handler.in_fail_safe_mode = FALSE, !.handler.error_count = 0,
                    !.ret = TRUE]
    ELSE [st EXCEPT !.ret = FALSE]

\* SafetyManager::reportError not latching fail-safe mode
reportErrorNoLatch(st, severity) == handleError(st, severity)

\* SafetyManager::reportError(code, severity, message)
reportError(st, severity) ==
    LET handled == handleError(st, severity)
    IN  IF severity >= CRITICAL
        THEN [handled EXCEPT !.safety.fail_safe_mode = TRUE]
        ELSE handled

\* SafetyManager::isInFailSafeMode()
isInFailSafeMode(st) ==
    IF st.safety.fail_safe_mode THEN [st EXCEPT !.ret = TRUE]
    ELSE LET recovery == handlerAttemptRecovery(st)
         IN  [recovery EXCEPT !.ret = ~recovery.ret]

\* WatchdogManager::feed() leaving the failure count
feedKeepsCount(st) == [st EXCEPT !.feeds = @ + 1]

\* WatchdogManager::feed()
feed(st) == [st EXCEPT !.feeds = @ + 1, !.wdm.consecutive_failures = 0]

\* WatchdogManager::enterFailSafeMode()
enterFailSafeMode(st) ==
    IF st.wdm.in_fail_safe_mode THEN st
    ELSE feed([st EXCEPT !.wdm.in_fail_safe_mode = TRUE])

\* WatchdogManager::checkHealthAndFeed(): custom_ok is what the registered
\* check answers, low_memory what MemoryMonitor::isLowMemory() answers
checkHealthAndFeed(st, custom_ok, low_memory) ==
    IF (st.wdm.health_check => custom_ok) /\ ~low_memory
    THEN [feed(st) EXCEPT !.streak = 0, !.ret = TRUE]
    ELSE LET failed == [st EXCEPT !.wdm.consecutive_failures = @ + 1, !.streak = @ + 1]
         IN  IF failed.wdm.consecutive_failures >= MAX_CONSECUTIVE_FAILURES
             THEN [enterFailSafeMode(failed) EXCEPT !.ret = FALSE]
             ELSE [failed EXCEPT !.ret = FALSE]

\* WatchdogManager::attemptRecovery()
wdmAttemptRecovery(st, low_memory) ==
    IF ~st.wdm.in_fail_safe_mode THEN [st EXCEPT !.ret = TRUE]
    ELSE IF ~low_memory /\ st.wdm.consecutive_failures = 0
    THEN [st EXCEPT !.wdm.in_fail_safe_mode = FALSE, !.wdm.consecutive_failures = 0,
                    !.ret = TRUE]
    ELSE [st EXCEPT !.ret = FALSE]

\* SafetyManager::performHealthCheck() with memory and stack monitoring on
performHealthCheck(st, low_memory, stack_risk, custom_ok) ==
    LET memory == IF low_memory THEN reportError(st, ERROR) ELSE st
        stack == IF stack_risk THEN reportError(memory, CRITICAL) ELSE memory
        custom == IF st.safety.custom_health_check /\ ~custom_ok
                  THEN reportError(stack, ERROR) ELSE stack
    IN  [custom EXCEPT !.ret = ~low_memory /\ ~stack_risk
                                /\ (st.safety.custom_health_check => custom_ok)]

\* SafetyManager::performMemoryChecks(): two warnings, always true
performMemoryChecks(st, heap_high, fragmented) ==
    LET usage == IF heap_high THEN reportError(st, WARNING) ELSE st
        fragmentation == IF fragmented THEN reportError(usage, WARNING) ELSE usage
    IN  [fragmentation EXCEPT !.ret = TRUE]

\* SafetyManager::attemptRecovery(); env holds what the monitors and the
\* custom check answer during the call
attemptRecovery(st, env) ==
    IF ~st.safety.fail_safe_mode THEN [st EXCEPT !.ret = TRUE]
    ELSE LET first == handlerAttemptRecovery(st)
             second == IF first.safety.watchdog_manager
                       THEN wdmAttemptRecovery(first, env.low_memory)
                       ELSE [first EXCEPT !.ret = TRUE]
             third == performHealthCheck(second, env.low_memory_again, env.stack_risk,
                                         env.custom_ok)
         IN  IF ~first.ret THEN first
             ELSE IF ~second.ret THEN second
             ELSE IF ~third.ret THEN third
             ELSE [third EXCEPT !.safety.fail_safe_mode = FALSE, !.ret = TRUE]

\* SafetyManager::executeSafetyChecks(); health_due and memory_due say which
\* period has run out
executeSafetyChecks(st, health_due, memory_due, env) ==
    IF ~st.safety.initialized THEN [st EXCEPT !.ret = FALSE]
    ELSE LET health == IF health_due
                       THEN performHealthCheck(st, env.low_memory, env.stack_risk,
                                               env.custom_ok)
                       ELSE [st EXCEPT !.ret = TRUE]
             memory == IF memory_due
                       THEN performMemoryChecks(health, env.heap_high, env.fragmented)
                       ELSE health
             passed == health.ret
             fed == IF passed /\ memory.safety.watchdog_manager
                    THEN checkHealthAndFeed(memory, env.custom_ok, env.low_memory_again)
                    ELSE memory
         IN  [fed EXCEPT !.ret = passed]

\* SafetyManager::getSafetyStatus(): the fields that come from the objects
getSafetyStatus(st) ==
    LET mode == isInFailSafeMode(st)
    IN  [mode EXCEPT !.ret = [in_fail_safe_mode |-> mode.ret,
                              error_count |-> 0,
                              consecutive_failures |->
                                  IF st.safety.watchdog_manager
                                  THEN st.wdm.consecutive_failures ELSE 0]]

\* what the monitors and the custom check can answer during a call
Environments ==
    [low_memory : BOOLEAN, low_memory_again : BOOLEAN, stack_risk : BOOLEAN,
     custom_ok : BOOLEAN, heap_high : BOOLEAN, fragmented : BOOLEAN]

\* a call leaves the objects as st has them and returns st.ret
CallWith(name, argument, st) ==
    /\ safety' = st.safety
    /\ handler' = st.handler
    /\ wdm' = st.wdm
    /\ feeds' = st.feeds
    /\ streak' = st.streak
    /\ returned' = st.ret
    /\ op' = <<name, argument>>
    /\ UNCHANGED <<windowVars, configVars, trackerVars, clockVars, single, frontVars, taskVars,
                   loopVars, audio_input, result, read_log>>

Call(name, st) == CallWith(name, 0, st)

\* how the watchdog of initialize() comes out: made and started, made but
\* refusing to start, not made, or made with no memory left for its manager
WatchdogOutcomes == {"active", "refused", "absent", "unallocated"}

\* SafetyManager::initialize(timer, log_manager, config); without memory for
\* the error handler the manager stays uninitialized
Initialize(log_manager, handler_allocated, watchdog) ==
    /\ ~safety.initialized
    /\ LET fresh == [Objects EXCEPT !.safety.fail_safe_mode = FALSE,
                                    !.handler = [NoHandler EXCEPT !.log_manager = log_manager]]
           warned == IF watchdog = "absent" THEN reportError(fresh, WARNING) ELSE fresh
           managed == IF watchdog \in {"absent", "refused"} THEN reportError(warned, ERROR)
                      ELSE warned
       IN  IF ~handler_allocated
           THEN Call("initialize", [Objects EXCEPT !.safety.fail_safe_mode = FALSE])
           ELSE Call("initialize",
                     [managed EXCEPT !.safety.watchdog_manager = (watchdog = "active"),
                                     !.wdm = NoWatchdogManager, !.streak = 0,
                                     !.safety.initialized = TRUE, !.ret = TRUE])

\* SafetyManager::registerHealthCheck(check_function)
RegisterHealthCheck ==
    /\ safety.initialized
    /\ ~safety.custom_health_check
    /\ Call("registerHealthCheck",
            [Objects EXCEPT !.safety.custom_health_check = TRUE,
                            !.wdm.health_check = safety.watchdog_manager])

ReportError(severity) ==
    /\ safety.initialized
    /\ handler.error_count < MaxErrors
    /\ CallWith("reportError", severity, reportError(Objects, severity))

IsInFailSafeMode ==
    /\ safety.initialized
    /\ Call("isInFailSafeMode", isInFailSafeMode(Objects))

GetSafetyStatus ==
    /\ safety.initialized
    /\ Call("getSafetyStatus", getSafetyStatus(Objects))

AttemptRecovery(env) ==
    /\ safety.initialized
    /\ handler.error_count < MaxErrors
    /\ Call("attemptRecovery", attemptRecovery(Objects, env))

ExecuteSafetyChecks(health_due, memory_due, env) ==
    /\ safety.initialized
    /\ handler.error_count < MaxErrors
    /\ wdm.consecutive_failures < MaxFailures
    /\ streak < MaxFailures
    /\ Call("executeSafetyChecks", executeSafetyChecks(Objects, health_due, memory_due, env))

\* SafetyManager::feedWatchdog()
FeedWatchdog ==
    /\ safety.initialized
    /\ Call("feedWatchdog",
            IF safety.watchdog_manager THEN [feed(Objects) EXCEPT !.streak = 0] ELSE Objects)

SafetyNext ==
    \/ \E log_manager \in BOOLEAN, handler_allocated \in BOOLEAN, watchdog \in WatchdogOutcomes :
           Initialize(log_manager, handler_allocated, watchdog)
    \/ RegisterHealthCheck
    \/ \E severity \in Severities : ReportError(severity)
    \/ IsInFailSafeMode
    \/ GetSafetyStatus
    \/ \E env \in Environments : AttemptRecovery(env)
    \/ \E health_due \in BOOLEAN, memory_due \in BOOLEAN, env \in Environments :
           ExecuteSafetyChecks(health_due, memory_due, env)
    \/ FeedWatchdog

SpecSafety == Init /\ [][SafetyNext]_vars

\* a WatchdogManager with its watchdog, used on its own
WdmRegisterHealthCheck ==
    /\ ~wdm.health_check
    /\ Call("WatchdogManager::registerHealthCheck", [Objects EXCEPT !.wdm.health_check = TRUE])

WdmFeed ==
    /\ Running
    /\ Call("WatchdogManager::feed", [feed(Objects) EXCEPT !.streak = 0])

WdmCheckHealthAndFeed(custom_ok, low_memory) ==
    /\ wdm.consecutive_failures < MaxFailures
    /\ streak < MaxFailures
    /\ Call("WatchdogManager::checkHealthAndFeed",
            checkHealthAndFeed(Objects, custom_ok, low_memory))

WdmAttemptRecovery(low_memory) ==
    /\ Running
    /\ Call("WatchdogManager::attemptRecovery", wdmAttemptRecovery(Objects, low_memory))

WatchdogNext ==
    \/ WdmRegisterHealthCheck
    \/ WdmFeed
    \/ \E custom_ok \in BOOLEAN, low_memory \in BOOLEAN : WdmCheckHealthAndFeed(custom_ok, low_memory)
    \/ \E low_memory \in BOOLEAN : WdmAttemptRecovery(low_memory)

SpecWatchdog == Init /\ [][WatchdogNext]_vars

----------------------------------------------------------------------------
(* The single-loop firmware of src/src/main.cpp: loop() samples and detects *)
(* off one timing variable, lastDetectionTime.                              *)

\* the sampling interval of loop(): 1000000 / SAMPLE_RATE
SamplePeriod == 1000000 \div SAMPLE_RATE

\* millis() between two loop() calls
LoopSteps == {15, SamplePeriod, DETECTION_PERIOD, DETECTION_PERIOD + SamplePeriod}

\* isBufferReady() after the given number of sample() calls
WindowReady(samples) == samples >= WindowSamples

\* loop(): the sampling branch, then the detection branch
SingleLoop(step) ==
    /\ single.currentTime + step <= MaxLoopTime
    /\ LET currentTime == single.currentTime + step
           sampling == currentTime - single.lastDetectionTime >= SamplePeriod
           sampled == IF sampling THEN currentTime ELSE single.lastDetectionTime
           samples == IF sampling THEN (IF single.samples < WindowSamples THEN single.samples + 1
                                      ELSE WindowSamples)
                      ELSE single.samples
           detecting == /\ currentTime - sampled >= DETECTION_PERIOD
                        /\ WindowReady(samples)
       IN  single' = [currentTime |-> currentTime,
                      lastDetectionTime |-> IF detecting THEN currentTime ELSE sampled,
                      samples |-> samples,
                      detects |-> IF detecting THEN 1 ELSE 0,
                      waited |-> IF detecting \/ ~WindowReady(single.samples) THEN 0
                                 ELSE single.waited + step]
    /\ op' = <<"loop", step>>
    /\ UNCHANGED <<windowVars, configVars, trackerVars, clockVars, safetyVars, frontVars,
                   taskVars, loopVars, audio_input, result, harnessVars>>

SingleNext == \E step \in LoopSteps : SingleLoop(step)

SpecSingle == Init /\ [][SingleNext]_vars

----------------------------------------------------------------------------
(* The firmware of main.cpp: loop() calls detect() on one core while        *)
(* audioSamplingTask calls sample() on the other, with no lock; each shared *)
(* memory access of the window is a step                                    *)

\* setup(): begin(MICROPHONE_PIN), then xTaskCreatePinnedToCore(audioSamplingTask)
Setup ==
    /\ loop_pc = "setup"
    /\ BeginEffect(1)
    /\ loop_pc' = "idle"
    /\ task_pc' = "read"
    /\ op' = <<"setup", 1>>
    /\ UNCHANGED <<configVars, restVars, frontVars, task_value, task_i, loop_level, copy_i, result,
                   harnessVars>>

\* audioSamplingTask, sample(): readSample(), then addSample() begins
TaskRead(value, level) ==
    /\ task_pc = "read"
    /\ ~test_mode[1] /\ audio_input.exists /\ audio_input.initialized
    /\ audio_input' = [audio_input EXCEPT !.level = level]
    /\ task_value' = value
    /\ IF Len(sample_buffer[1]) < FftSize
       THEN /\ sample_buffer' = [sample_buffer EXCEPT ![1] = Append(@, value)]
            /\ added' = [added EXCEPT ![1] = IF @ < FftSize THEN @ + 1 ELSE @]
            /\ recent' = [recent EXCEPT ![1] = LastAdded(@, value)]
            /\ UNCHANGED <<task_pc, task_i>>
       ELSE /\ task_pc' = "shift"
            /\ task_i' = 0
            /\ UNCHANGED windowVars
    /\ read_log' = <<value>>
    /\ op' = <<"sample:read", 1>>
    /\ UNCHANGED <<configVars, trackerVars, restVars, frontVars, loopVars, result, returned>>

\* addSample(): sample_buffer_[i] = sample_buffer_[i + 1]
TaskShift ==
    /\ task_pc = "shift"
    /\ task_i < FftSize - 1
    /\ sample_buffer' = [sample_buffer EXCEPT ![1][task_i + 1] = sample_buffer[1][task_i + 2]]
    /\ task_i' = task_i + 1
    /\ op' = <<"sample:shift", 1>>
    /\ UNCHANGED <<added, recent, configVars, trackerVars, restVars, frontVars, task_pc, task_value,
                   loopVars, audio_input, result, harnessVars>>

\* addSample(): sample_buffer_[fft_size_ - 1] = value; sample() returns
TaskStore ==
    /\ task_pc = "shift"
    /\ task_i >= FftSize - 1
    /\ sample_buffer' = [sample_buffer EXCEPT ![1][FftSize] = task_value]
    /\ added' = [added EXCEPT ![1] = IF @ < FftSize THEN @ + 1 ELSE @]
    /\ recent' = [recent EXCEPT ![1] = LastAdded(@, task_value)]
    /\ task_pc' = "read"
    /\ op' = <<"sample", 1>>
    /\ UNCHANGED <<configVars, trackerVars, restVars, frontVars, task_value, task_i, loopVars,
                   audio_input, result, harnessVars>>

\* loop(), detect() up to performFFT: the checks, and the scratch arrays
\* allocated on the first call
LoopDetectStart ==
    /\ loop_pc = "idle"
    /\ IF ~isBufferReady(sample_buffer[1])
       THEN /\ Skip(1, 0, "buffering")
            /\ op' = <<"detect", 1>>
            /\ UNCHANGED loopVars
       ELSE IF SignalLevel(1) < LOW_SIGNAL_LEVEL
       THEN /\ Skip(1, SignalLevel(1), "low_signal")
            /\ op' = <<"detect", 1>>
            /\ UNCHANGED loopVars
       ELSE /\ loop_level' = SignalLevel(1)
            /\ loop_pc' = "copy"
            /\ copy_i' = 0
            /\ vReal' = IF vReal = <<>> THEN Zeros(FftSize) ELSE vReal
            /\ op' = <<"detect:start", 1>>
            /\ UNCHANGED <<fft_buffer, envelope_value, envelope_threshold, beat_times,
                           prev_envelope, beat_event, result>>
    /\ UNCHANGED <<windowVars, configVars, restVars, frontVars, taskVars, harnessVars, audio_input>>

\* performFFT(): vReal[i] = (double)sample_buffer_[i]
LoopCopy ==
    /\ loop_pc = "copy"
    /\ copy_i < FftSize
    /\ vReal' = [vReal EXCEPT ![copy_i + 1] = sample_buffer[1][copy_i + 1]]
    /\ copy_i' = copy_i + 1
    /\ op' = <<"detect:copy", 1>>
    /\ UNCHANGED <<windowVars, configVars, fft_buffer, envelope_value, envelope_threshold,
                   beat_times, prev_envelope, beat_event, restVars, frontVars, taskVars, loop_pc,
                   loop_level, audio_input, result, harnessVars>>

\* the rest of detect(): the transform of the copy, the tracker, the estimate
LoopAnalyse ==
    /\ loop_pc = "copy"
    /\ copy_i >= FftSize
    /\ Analyse(1, Heard(vReal), loop_level)
    /\ loop_pc' = "idle"
    /\ op' = <<"detect", 1>>
    /\ UNCHANGED <<windowVars, configVars, restVars, frontVars, taskVars, loop_level, copy_i,
                   harnessVars, audio_input>>

TasksNext ==
    \/ Setup
    \/ \E value \in Samples : TaskRead(value, 100)
    \/ TaskShift
    \/ TaskStore
    \/ LoopDetectStart
    \/ LoopCopy
    \/ LoopAnalyse

SpecTasks == Init /\ [][TasksNext]_vars

----------------------------------------------------------------------------
(* Properties *)

\* the step is a detect() call of detector d
DetectStep(d) == op' = <<"detect", d>>

\* C1: within one detector, sample() and detect() never overlap: no step of
\* sample() writes the sample window between the start and the end of a
\* detect() call, also when sampling runs on its own task.
C1_Serialized ==
    [][loop_pc = "copy" => sample_buffer'[1] = sample_buffer[1]]_vars

\* the previous-envelope value the rising-edge test of detector d reads
PrevEnvelopeOf(d) == prev_envelope

\* C2: sample() or detect() on one detector never changes the sample window,
\* the envelope state (the previous-envelope value included), the beat
\* history or the results of another detector.
C2_InstancesIndependent ==
    [][\A d, e \in Detectors :
        (d # e /\ (op' = <<"detect", d>> \/ op' = <<"sample", d>>)) =>
            /\ sample_buffer'[e] = sample_buffer[e]
            /\ envelope_value'[e] = envelope_value[e]
            /\ envelope_threshold'[e] = envelope_threshold[e]
            /\ PrevEnvelopeOf(e)' = PrevEnvelopeOf(e)
            /\ beat_times'[e] = beat_times[e]
            /\ result'[e] = result[e]]_vars

\* C3: detect() returns "detecting" only with bpm > 0 and confidence >=
\* CONFIDENCE_THRESHOLD, and whenever fewer than fft_size samples were added
\* since construction or begin(), the signal level is below the low-signal
\* level, or the history holds fewer than 2 beats, the result has bpm = 0 and
\* a status other than "detecting".
C3_NeverMisleading ==
    \A d \in Detectors :
        op = <<"detect", d>> =>
            /\ result[d].status = "detecting" =>
                   result[d].bpm > 0 /\ result[d].confidence >= CONFIDENCE_THRESHOLD
            /\ (\/ added[d] < FftSize
                \/ result[d].signal_level < LOW_SIGNAL_LEVEL
                \/ Len(beat_times[d]) < 2) =>
                   result[d].bpm = 0 /\ result[d].status # "detecting"

\* C4: isBufferReady() is false until fft_size samples have been added since
\* construction or the last begin(), and true from then on until the next begin().
C4_ReadyExactlyAfterN ==
    \A d \in Detectors : isBufferReady(sample_buffer[d]) <=> added[d] >= FftSize

\* C5: a detect() call made when fewer than fft_size samples have been added
\* since construction or the last begin() returns status "buffering" with bpm = 0.
C5_BufferingBeforeReady ==
    \A d \in Detectors :
        (op = <<"detect", d>> /\ added[d] < FftSize) =>
            result[d].status = "buffering" /\ result[d].bpm = 0

\* consecutive timestamps of a history are at least MIN_BEAT_INTERVAL apart,
\* the difference taken as the code takes it (unsigned long subtraction)
Spaced(times) ==
    \A i \in 1..(Len(times) - 1) :
        Ge32(Sub32(times[i + 1], times[i]), MIN_BEAT_INTERVAL)

\* C6: a beat observed at time now is appended to the history only if the
\* history is empty or now minus the most recently accepted beat time is at
\* least MIN_BEAT_INTERVAL; so any two consecutive timestamps of the history
\* are at least MIN_BEAT_INTERVAL apart.
C6_Debounce ==
    /\ [](\A d \in Detectors : Spaced(beat_times[d]))
    /\ [][\A d \in Detectors :
            (DetectStep(d) /\ beat_times'[d] # beat_times[d]) =>
                /\ Last(beat_times'[d]) = now
                /\ \/ beat_times[d] = <<>>
                   \/ Ge32(Sub32(now, Last(beat_times[d])), MIN_BEAT_INTERVAL)]_vars

C6_Witness ==
    /\ op = <<"detect", 1>>
    /\ beat_event[1] = "accepted"
    /\ Len(beat_times[1]) >= 2

\* C7: the timestamps of the beat history are strictly increasing from oldest
\* to newest, whatever the millisecond clock returns.
C7_StrictlyIncreasing ==
    \A d \in Detectors :
        \A i \in 1..(Len(beat_times[d]) - 1) :
            Lt32(beat_times[d][i], beat_times[d][i + 1])

\* C8: the history holds at most BEAT_HISTORY_SIZE timestamps; a beat accepted
\* while the history is full removes exactly the oldest timestamp and leaves
\* the others in their order, the new one last.
C8_BoundedHistory ==
    /\ [](\A d \in Detectors : Len(beat_times[d]) <= BEAT_HISTORY_SIZE)
    /\ [][\A d \in Detectors :
            (DetectStep(d) /\ beat_event'[d] = "accepted") =>
                beat_times'[d] =
                    (IF Len(beat_times[d]) >= BEAT_HISTORY_SIZE
                     THEN Tail(beat_times[d]) ELSE beat_times[d]) \o <<now>>]_vars

C8_Witness ==
    /\ op = <<"detect", 1>>
    /\ beat_event[1] = "accepted"
    /\ Len(beat_times[1]) = BEAT_HISTORY_SIZE
    /\ beat_times[1][1] # U32(0)

\* C9: a beat fires in a detection cycle only if the envelope is above the
\* threshold in that cycle and the envelope of the preceding cycle of the same
\* detector was at or below it; an envelope that stays above the threshold
\* fires no further beat.
C9_RisingEdgeOnly ==
    [][\A d \in Detectors :
        (DetectStep(d) /\ beat_event'[d] = "accepted") =>
            /\ envelope_value'[d] > envelope_threshold'[d]
            /\ envelope_value[d] <= envelope_threshold'[d]]_vars

\* the step is a detection cycle of d that runs the tracker, sees a rising edge
\* and rejects it: the new envelope is above the new threshold, the previous
\* envelope was not, and the last accepted beat is less than MIN_BEAT_INTERVAL old
RejectedEdgeStep(d) ==
    /\ DetectStep(d)
    /\ result'[d].status \notin {"buffering", "low_signal"}
    /\ LET thr == AdaptiveThreshold(detection_threshold[d], audio_input)
           env == NextEnvelope(envelope_value[d], BassEnergy(fft_buffer'[d]))
       IN  /\ env > thr
           /\ prev_envelope <= thr
           /\ beat_times[d] # <<>>
           /\ ~Ge32(Sub32(now, Last(beat_times[d])), MIN_BEAT_INTERVAL)

\* C10: when the debounce rule rejects a rising edge, the beat history is left
\* unchanged, while the envelope value, the adaptive threshold and the
\* previous-envelope value are updated for that cycle.
C10_RejectedEdgeFrame ==
    [][\A d \in Detectors :
        RejectedEdgeStep(d) =>
            /\ beat_times'[d] = beat_times[d]
            /\ envelope_value'[d] = NextEnvelope(envelope_value[d], BassEnergy(fft_buffer'[d]))
            /\ envelope_threshold'[d] = AdaptiveThreshold(detection_threshold[d], audio_input)
            /\ prev_envelope' = envelope_value'[d]]_vars

C10_Witness ==
    /\ op = <<"detect", 1>>
    /\ beat_event[1] = "rejected"
    /\ envelope_threshold[1] # DETECTION_THRESHOLD


\* the step is a reset or a reconfiguration of detector d
ResetStep(d) ==
    op' \in {<<"begin", d>>, <<"setMinBPM", d>>, <<"setMaxBPM", d>>, <<"setThreshold", d>>}

\* C11: immediately after begin(), setMinBPM(), setMaxBPM() or setThreshold()
\* the beat history is empty.
C11_ClearedOnReset ==
    [][\A d \in Detectors : ResetStep(d) => beat_times'[d] = <<>>]_vars


\* a timestamp in milliseconds
Ms(t) == t[1] * HALF + t[2]

\* the i-th inter-beat interval of a history, and the positions of those
\* inside [MIN_BEAT_INTERVAL, MAX_BEAT_INTERVAL]
IntervalAt(times, i) == Ms(times[i + 1]) - Ms(times[i])
InRange(times) ==
    {i \in 1..(Len(times) - 1) :
        IntervalAt(times, i) >= MIN_BEAT_INTERVAL /\ IntervalAt(times, i) <= MAX_BEAT_INTERVAL}

\* the k-th smallest of the in-range intervals
KthInterval(times, k) ==
    CHOOSE v \in {IntervalAt(times, i) : i \in InRange(times)} :
        /\ Cardinality({i \in InRange(times) : IntervalAt(times, i) < v}) < k
        /\ k <= Cardinality({i \in InRange(times) : IntervalAt(times, i) <= v})

\* twice the median of the in-range intervals
TwiceMedian(times) ==
    LET n == Cardinality(InRange(times))
    IN  IF n % 2 = 1 THEN 2 * KthInterval(times, (n + 1) \div 2)
        ELSE KthInterval(times, n \div 2) + KthInterval(times, n \div 2 + 1)

\* 60000 / median in hundredths of a BPM, and whether it lies outside [lo, hi]
MedianTempo(times) == 12000000 \div TwiceMedian(times)
OutsideLimits(times, lo, hi) ==
    120000 < lo * TwiceMedian(times) \/ 120000 > hi * TwiceMedian(times)

\* the tempo the last call on detector d delivered: the bpm field of a
\* detect() result, or the value of a direct calculateBPM() call
DeliveredBpm(d) == IF op = <<"detect", d>> THEN result[d].bpm ELSE returned

\* C12: calculateBPM(), and the bpm field of every detect() result, is 0
\* whenever the history holds fewer than 2 timestamps or the computed tempo
\* lies outside the configured [MIN_BPM, MAX_BPM]; every non-zero bpm lies
\* within these limits.
C12_TempoWithinLimits ==
    \A d \in Detectors :
        (op = <<"detect", d>> \/ op = <<"calculateBPM", d>>) =>
            /\ Len(beat_times[d]) < 2 => DeliveredBpm(d) = 0
            /\ DeliveredBpm(d) # 0 =>
                   /\ DeliveredBpm(d) >= 100 * min_bpm[d]
                   /\ DeliveredBpm(d) <= 100 * max_bpm[d]
            /\ (/\ InRange(beat_times[d]) # {}
                /\ OutsideLimits(beat_times[d], min_bpm[d], max_bpm[d])) =>
                   DeliveredBpm(d) = 0

C12_Witness ==
    /\ op = <<"detect", 1>>
    /\ result[1].status = "no_beats"
    /\ InRange(beat_times[1]) # {}
    /\ OutsideLimits(beat_times[1], min_bpm[1], max_bpm[1])

\* C13: for a history with at least one in-range interval, calculateBPM() is
\* 60000 divided by the median of the in-range intervals (the middle one of an
\* odd count, the mean of the two middle ones of an even count), or 0 if that
\* tempo lies outside the configured limits.
C13_MedianTempo ==
    \A d \in Detectors :
        (op = <<"calculateBPM", d>> /\ InRange(beat_times[d]) # {}) =>
            returned = IF OutsideLimits(beat_times[d], min_bpm[d], max_bpm[d]) THEN 0
                       ELSE MedianTempo(beat_times[d])

\* MaxMockBeats beats spaced 500 ms apart give 120
C13_Witness ==
    /\ op = <<"calculateBPM", 1>>
    /\ Len(beat_times[1]) = MaxMockBeats
    /\ \A i \in 1..(MaxMockBeats - 1) : IntervalAt(beat_times[1], i) = 500
    /\ returned = 12000

\* the history whose intervals are the in-range intervals of times, in order
Rebuilt(times) ==
    LET kept[i \in 1..Len(times)] ==
            IF i = 1 THEN <<U32(0)>>
            ELSE IF (i - 1) \in InRange(times)
                 THEN Append(kept[i - 1],
                             Add32(Last(kept[i - 1]), U32(IntervalAt(times, i - 1))))
                 ELSE kept[i - 1]
    IN  IF times = <<>> THEN <<>> ELSE kept[Len(times)]

\* C14: intervals shorter than MIN_BEAT_INTERVAL or longer than
\* MAX_BEAT_INTERVAL do not enter the tempo estimate: calculateBPM() returns
\* what it returns on the history made of the in-range intervals alone, and 0
\* when every interval is excluded.
C14_OutOfRangeExcluded ==
    \A d \in Detectors :
        op = <<"calculateBPM", d>> =>
            /\ returned = calculateBPM(Rebuilt(beat_times[d]), min_bpm[d], max_bpm[d])
            /\ InRange(beat_times[d]) = {} => returned = 0

\* a history of too fast, too slow and in-range intervals with a tempo
C14_Witness ==
    /\ op = <<"calculateBPM", 1>>
    /\ \E i \in 1..(Len(beat_times[1]) - 1) : IntervalAt(beat_times[1], i) < MIN_BEAT_INTERVAL
    /\ \E i \in 1..(Len(beat_times[1]) - 1) : IntervalAt(beat_times[1], i) > MAX_BEAT_INTERVAL
    /\ InRange(beat_times[1]) # {}
    /\ returned # 0


\* C15: once FftSize samples have been added, after every addSample the window
\* holds exactly the FftSize most recently added samples, oldest first; before
\* that it holds the samples added so far, oldest first, after zeros in the
\* positions not yet filled.
C15_WindowIsFifo ==
    \A d \in Detectors :
        sample_buffer[d] = Zeros(FftSize - Len(recent[d])) \o recent[d]

C15_Witness ==
    /\ op = <<"sample", 1>>
    /\ added[1] = FftSize
    /\ sample_buffer[1][1] = 100
    /\ sample_buffer[1][FftSize] = 0

\* sample() of detector d has a source to read: the generator in test mode,
\* else the initialized front end
HasSource(d) == test_mode[d] \/ (audio_input.exists /\ audio_input.initialized)

\* the step is a sample() call on d that reads one value and appends it
OneReadOneAppend(d) ==
    /\ Len(read_log') = 1
    /\ sample_buffer'[d] = Tail(sample_buffer[d]) \o read_log'
    /\ \A e \in Detectors \ {d} : sample_buffer'[e] = sample_buffer[e]

C17_LowSignalFrame ==
    [][\A d \in Detectors :
        (/\ DetectStep(d)
         /\ isBufferReady(sample_buffer[d])
         /\ SignalLevel(d) < LOW_SIGNAL_LEVEL) =>
            /\ result'[d].status = "low_signal"
            /\ result'[d].bpm = 0
            /\ fft_buffer' = fft_buffer
            /\ vReal' = vReal
            /\ envelope_value' = envelope_value
            /\ envelope_threshold' = envelope_threshold
            /\ prev_envelope' = prev_envelope
            /\ beat_times' = beat_times]_vars

C17_Witness ==
    /\ op = <<"detect", 1>>
    /\ result[1].status = "low_signal"
    /\ envelope_value[1] > 0
    /\ beat_times[1] # <<>>


\* C18: when the allocation of the FFT scratch buffers fails, detect() returns
\* with status error for that cycle, having skipped the analysis; the failure
\* never ends the program.
C18_AllocationFailureSurvived ==
    [][\A d \in Detectors :
        (/\ vReal = <<>>
         /\ vReal' = <<>>
         /\ isBufferReady(sample_buffer[d])
         /\ SignalLevel(d) >= LOW_SIGNAL_LEVEL
         /\ op'[2] = d /\ op'[1] \in {"detect", "panic"}) =>
            /\ op' = <<"detect", d>>
            /\ result'[d].status = "error"
            /\ result'[d].bpm = 0
            /\ UNCHANGED <<fft_buffer, envelope_value, envelope_threshold, beat_times>>]_vars


\* FFT_SIZE & (FFT_SIZE - 1) is zero for a size of at least one
RECURSIVE PowerOfTwo(_)
PowerOfTwo(n) == n = 1 \/ (n > 1 /\ n % 2 = 0 /\ PowerOfTwo(n \div 2))

\* C19: sample() and detect() only ever run on a detector whose FFT size is a
\* power of two and whose sample rate is not zero, a detector constructed
\* otherwise having been rejected.
C19_InvalidConfigurationRejected ==
    \A d \in Detectors :
        op \in {<<"sample", d>>, <<"detect", d>>} =>
            /\ PowerOfTwo(Len(sample_buffer[d]))
            /\ sample_rate[d] > 0


\* C20: every ADC code converted to a voltage lies in 0..ADC_MAX: readSample,
\* and readStereoSamples for each channel, convert the code read if it is in
\* range and the midpoint code otherwise.
C20_OutOfRangeCodeReplaced ==
    \A i \in 1..Len(converted) :
        /\ converted[i].code \in 0..ADC_MAX
        /\ converted[i].code = IF converted[i].raw \in 0..ADC_MAX
                               THEN converted[i].raw ELSE ADC_MIDPOINT


\* C21: in readStereoSamples the processed sample of each channel follows from
\* that channel's own samples: the first read of a front end gives each
\* channel x, and a read right after another gives each channel
\* x - x1 + pole * y1 with x1 and y1 that channel's previous input and output.
C21_ChannelsIndependent ==
    [][(/\ op' = <<"readStereoSamples", 0>>
        /\ Len(converted') = 2
        /\ adc.dc_blocking) =>
            /\ reads = 0 =>
                \A i \in 1..2 : converted'[i].out = converted'[i].mv
            /\ (op = <<"readStereoSamples", 0>> /\ Len(converted) = 2) =>
                \A i \in 1..2 :
                    converted'[i].out =
                        converted'[i].mv - converted[i].mv + PoleTimes(converted[i].out)]_vars


\* C22: the signal levels readSample() produces after a resetCalibration()
\* are those the same codes produced after the resetCalibration() before:
\* as far as the two sequences of codes agree, so do the levels.
C22_SameLevelsAfterReset ==
    \A n \in 1..Len(epoch) :
        (/\ n <= Len(previous)
         /\ \A i \in 1..n : Len(epoch[i].raw) = 1 /\ epoch[i].raw = previous[i].raw) =>
            epoch[n].level = previous[n].level


\* C23: in every configuration a detector can be constructed with the bass
\* bins satisfy 0 <= min_bin <= max_bin <= fft_size / 2 - 1 and the divisor
\* max_bin - min_bin + 1 of the mean bass energy is at least 1.
C23_BassBinsInBounds ==
    op = <<"bassBins", 0>> =>
        /\ ~Lt32(returned.max_bin, returned.min_bin)
        /\ Lt32(returned.max_bin, SizeT(returned.fft_size \div 2))
        /\ returned.divisor # SizeT(0)

\* what isInFailSafeMode() answers when called now
InFailSafeMode == isInFailSafeMode(Objects).ret

\* C24: a freshly initialized SafetyManager is not in fail-safe mode, and from
\* a report of severity CRITICAL or higher on isInFailSafeMode() answers true
\* until an attemptRecovery() call succeeds
C24_FailSafeLatched ==
    [][/\ op' = <<"initialize", 0>> => ~InFailSafeMode'
       /\ (op'[1] = "reportError" /\ op'[2] >= CRITICAL) => InFailSafeMode'
       /\ (InFailSafeMode /\ ~(op' = <<"attemptRecovery", 0>> /\ returned' = TRUE))
              => InFailSafeMode']_vars

C24_Witness ==
    /\ op = <<"isInFailSafeMode", 0>>
    /\ returned = TRUE
    /\ safety.fail_safe_mode
    /\ handler.error_count > 0


\* C25: on an initialized SafetyManager a report of severity below CRITICAL
\* returns true, with or without a log manager
C25_MinorErrorHandled ==
    (op[1] = "reportError" /\ op[2] < CRITICAL) => returned = TRUE


\* C26: a checkHealthAndFeed() call whose health check failed has not fed the
\* watchdog
C26_FedOnlyWhenHealthy ==
    (op = <<"WatchdogManager::checkHealthAndFeed", 0>> /\ returned = FALSE) => feeds = 0


C30_ObserversPure ==
    [][op'[1] \in {"isInFailSafeMode", "getSafetyStatus"} =>
           /\ safety' = safety
           /\ handler' = handler
           /\ op = op' => returned' = returned]_vars

C30_Witness ==
    /\ op = <<"getSafetyStatus", 0>>
    /\ handler.in_fail_safe_mode
    /\ handler.error_count < RECOVERY_ERROR_LIMIT
    /\ returned.in_fail_safe_mode


\* C29: in the single-loop firmware, once the window is ready, the loop time
\* without a detect() call stays within about the detection period: the
\* period and the longest time between two loop() calls
C29_DetectEveryPeriod ==
    single.waited <= 2 * DETECTION_PERIOD + SamplePeriod


\* the last detect() returned a tempo with status detecting although the last
\* accepted beat is more than MAX_BEAT_INTERVAL old and the signal is not low
StaleTempoReported ==
    /\ result[1].status = "detecting"
    /\ result[1].bpm > 0
    /\ result[1].signal_level >= LOW_SIGNAL_LEVEL
    /\ beat_times[1] # <<>>
    /\ Ge32(Sub32(now, Last(beat_times[1])), MAX_BEAT_INTERVAL + 1)

\* C28: while sample() and detect() keep being called, with no beat accepted
\* for longer than MAX_BEAT_INTERVAL and the signal above the low-signal
\* level, detect() does not go on for ever returning the old tempo with status
\* detecting
C28_StaleTempoDropped ==
    ([]<>(op = <<"sample", 1>>) /\ []<>(op = <<"detect", 1>>))
        => []<>(op = <<"detect", 1>> /\ ~StaleTempoReported)

====
